---------------------------- MODULE Spec2Model ----------------------------
(* Model of the interactive image viewer of nitorch/plot/gui.py:           *)
(* ImageArtist (per-image display state) and ImageViewer (attribute        *)
(* interception, broadcast properties, field of view, grid layout,         *)
(* throttled redraw and the pointer/scroll handlers); and of the library   *)
(* routines of nitorch/nn/experimental/_classic.py (prepare, the           *)
(* optimisation loops of affine and diffeo) and of                         *)
(* nitorch/tools/qmri/fieldmaps/phase.py (derivatives, phase_fit), whose   *)
(* execution is held in the variable routine.                              *)
(*                                                                         *)
(* Conventions                                                             *)
(*   - Python's None is the empty tuple <<>> for coordinates and the       *)
(*     string "None" for property tokens; a grid dimension None is 0       *)
(*     (grid dimensions handed to the setter are positive).                *)
(*   - a coordinate is an exact rational <<num, den>> in lowest terms; the *)
(*     code computes in floats, which are exact on the dyadic values used. *)
(*   - time is counted in ticks of 1/50 s since construction.              *)
EXTENDS Integers, Sequences, FiniteSets, TLC

VARIABLES viewer, now, nscroll, held, last, routine

vars == <<viewer, now, nscroll, held, last, routine>>

-----------------------------------------------------------------------------
(* Bounds *)

MaxImages == 2
MaxTime == 2
MaxScroll == 1
MaxChanged == 1
MaxBatch == 2
MaxIter == 3
MaxVoxels == 2
\* the relative rounding unit of the floating-point format is 1/Mantissa
Mantissa == 8

(* Program constants *)

\* py.make_list(value, 3): index and fov corners have three entries
Dim == 3
\* draw_freq default 1/25 s, in ticks of 1/50 s
DrawFreq == 2
\* "for n_iter in range(20)" of phase_fit
PhaseIters == 20

-----------------------------------------------------------------------------
(* Exact rationals *)

None == <<>>

Abs(x) == IF x < 0 THEN 0 - x ELSE x

RECURSIVE Gcd(_, _)
Gcd(a, b) == IF b = 0 THEN a ELSE Gcd(b, a % b)

\* the value x bound to the parameter of F
Bind(x, F(_)) == F(x)

\* n / d in lowest terms with a positive denominator
Reduced(n, d, g) ==
    IF d < 0 THEN <<(0 - n) \div g, (0 - d) \div g>>
    ELSE <<n \div g, d \div g>>

Q(n, d) == Reduced(n, d, Gcd(Abs(n), Abs(d)))

QI(n) == <<n, 1>>
QAdd(a, b) == Q(a[1] * b[2] + b[1] * a[2], a[2] * b[2])
QSub(a, b) == Q(a[1] * b[2] - b[1] * a[2], a[2] * b[2])
QMul(a, b) == Q(a[1] * b[1], a[2] * b[2])
QDiv(a, b) == Q(a[1] * b[2], a[2] * b[1])
QLess(a, b) == a[1] * b[2] < b[1] * a[2]
QMin(a, b) == IF QLess(b, a) THEN b ELSE a
QMax(a, b) == IF QLess(a, b) THEN b ELSE a

RECURSIVE IPow(_, _)
IPow(b, e) == IF e = 0 THEN 1 ELSE b * IPow(b, e - 1)

\* b ** e for an integer base and an integer (possibly negative) exponent
QPow(b, e) == IF e >= 0 THEN QI(IPow(b, e)) ELSE Q(1, IPow(b, 0 - e))

\* Python truthiness of a coordinate: None and 0 are falsy
Truthy(x) == x # None /\ x[1] # 0

\* x or y
PyOr(x, y) == IF Truthy(x) THEN x ELSE y

Axes == 1..Dim
NoneVec == [a \in Axes |-> None]

\* py.make_list(value, 3) for value None or a sequence of three entries
MakeList3(value) == IF value = None THEN NoneVec ELSE value


-----------------------------------------------------------------------------
(* Image handles: a file path (mapped lazily by io.map) and an in-memory   *)
(* array; their voxel grids as seen from a visualisation space.            *)

Handles == {"a.nii", "arr"}

\* isinstance(image, str)
IsPath(h) == h = "a.nii"

\* voxel size of the image's orientation matrix (affine_default gives 1)
VoxelSize(h) == IF h = "a.nii" THEN 2 ELSE 1

\* corners, in world millimetres, of the image's voxel grid
WorldMin(h) == IF h = "a.nii" THEN <<0, 0 - 4, 0 - 2>> ELSE <<0 - 2, 0, 0 - 1>>
WorldMax(h) == IF h = "a.nii" THEN <<4, 4, 6>> ELSE <<2, 2, 1>>

\* visualisation-space matrices: eye(4) scaled by a voxel size, the
\* orientation matrix of an image, or a user-supplied 4x4 tensor
SpaceMatrices == {"eye*1", "eye*2", "affine(a.nii)", "affine(arr)", "M"}

SpaceScale(m) == IF m = "eye*2" THEN 2 ELSE 1
SpaceShift(m) ==
    CASE m = "affine(a.nii)" -> 1
      [] m = "affine(arr)" -> 0 - 1
      [] m = "M" -> 3
      [] OTHER -> 0

\* a world coordinate expressed in the visualisation space m
ToSpace(m, x) == Q(x - SpaceShift(m), SpaceScale(m))

BoxMin(m, h) == [a \in Axes |-> ToSpace(m, WorldMin(h)[a])]
BoxMax(m, h) == [a \in Axes |-> ToSpace(m, WorldMax(h)[a])]

RECURSIVE FoldMin(_, _, _)
FoldMin(m, hs, a) ==
    IF Len(hs) = 1 THEN BoxMin(m, hs[1])[a]
    ELSE QMin(BoxMin(m, hs[1])[a], FoldMin(m, Tail(hs), a))

RECURSIVE FoldMax(_, _, _)
FoldMax(m, hs, a) ==
    IF Len(hs) = 1 THEN BoxMax(m, hs[1])[a]
    ELSE QMax(BoxMax(m, hs[1])[a], FoldMax(m, Tail(hs), a))

\* spatial.compute_fov(space_matrix, affines, shapes): the bounding box
\* of all the voxel grids, as <<min corner, max corner>>
compute_fov(m, hs) ==
    <<[a \in Axes |-> FoldMin(m, hs, a)], [a \in Axes |-> FoldMax(m, hs, a)]>>

\* spatial.voxel_size(affines).min()
MinVoxelSize(hs) ==
    IF \E i \in 1..Len(hs) : VoxelSize(hs[i]) = 1 THEN 1 ELSE 2

-----------------------------------------------------------------------------
(* Python values of the display properties, as tokens *)

Props == {"mmap", "device", "layout", "show_cursor", "equalize", "clim",
          "mode", "interpolation", "colormap"}

StrTokens == {"row", "COL", "col", "orth", "diag", "LOG", "log", "cubic",
              "CAT", "cat", "intensity", "flow", "NEAREST", "nearest",
              "gray", "cpu"}

\* str.lower()
Lower(t) ==
    CASE t = "COL" -> "col"
      [] t = "LOG" -> "log"
      [] t = "CAT" -> "cat"
      [] t = "NEAREST" -> "nearest"
      [] OTHER -> t

\* float(value)
Float(t) ==
    CASE t = "0" -> "0.0"
      [] t = "1" -> "1.0"
      [] t = "2" -> "2.0"
      [] t = "True" -> "1.0"
      [] t = "False" -> "0.0"
      [] OTHER -> t

\* int(value)
Int_(t) ==
    CASE t = "1.5" -> "1"
      [] t = "True" -> "1"
      [] t = "False" -> "0"
      [] OTHER -> t

\* bool(value)
Bool(t) == t \notin {"False", "0", "None"}

LayoutValues == {"row", "col", "orth"}
EqualizeValues == {"lin", "linear", "quad", "quadratic", "log", "logarithmic"}
ModeValues == {"int", "intensity", "cat", "categorical", "disp", "displacement"}

\* values a caller assigns to each property
Inputs(p) ==
    CASE p = "mmap" -> {"True", "0"}
      [] p = "device" -> {"cpu", "0"}
      [] p = "layout" -> {"row", "COL", "orth", "diag"}
      [] p = "show_cursor" -> {"True", "0"}
      [] p = "equalize" -> {"LOG", "cubic"}
      [] p = "clim" -> {"(0,1)", "5"}
      [] p = "mode" -> {"CAT", "intensity", "flow"}
      [] p = "interpolation" -> {"1.5", "NEAREST"}
      [] p = "colormap" -> {"gray", "[[0,0,0],[1,1,1]]"}


IsTensor(t) == t = "tensor([[0,0,0],[1,1,1]])"

-----------------------------------------------------------------------------
(* ImageArtist *)

\* ImageArtist.mmap setter: bool(value), and the cache is released when
\* memory-mapping is switched on
artist_set_mmap(a, x) ==
    [a EXCEPT !.mmap = Bool(x),
              !.fdata = IF Bool(x) THEN FALSE ELSE @]

\* ImageArtist.device setter: an int n becomes 'cuda:n'; the cached
\* data, when present, is moved and stays present
artist_set_device(a, x) ==
    [a EXCEPT !.device = IF x = "0" THEN "cuda:0" ELSE x]

\* ImageArtist.clim setter: py.make_list(value, 2)
artist_set_clim(a, x) ==
    [a EXCEPT !.clim = CASE x = "(0,1)" -> <<"0", "1">>
                         [] x = "5" -> <<"5", "5">>
                         [] OTHER -> <<x, x>>]

\* setattr(image, key, value) on an artist: mmap, device and clim are
\* properties, the other settings are plain attributes
artist_setattr(a, p, x) ==
    CASE p = "mmap" -> artist_set_mmap(a, x)
      [] p = "device" -> artist_set_device(a, x)
      [] p = "clim" -> artist_set_clim(a, x)
      [] OTHER -> [a EXCEPT ![p] = x]

\* getattr(image, key), in the token form a setter accepts
artist_getattr(a, p) ==
    CASE p = "mmap" -> (IF a.mmap THEN "True" ELSE "False")
      [] OTHER -> a[p]

\* the body of the loop of ImageArtist.propagate(key):
\* setattr(image, key, getattr(self, key)); clim is read and stored as
\* the pair
propagated(self, image, p) ==
    CASE p = "clim" -> [image EXCEPT !.clim = self.clim]
      [] OTHER -> artist_setattr(image, p, artist_getattr(self, p))

\* a set_<p> that ignores its all flag
artist_set_alone(imgs, i, p, x, all) ==
    [imgs EXCEPT ![i] = artist_setattr(imgs[i], p, x)]

\* ImageArtist.set_<p>(x, all) called on imgs[i], imgs being the images
\* of its parent
artist_set(imgs, i, p, x, all) ==
    [j \in 1..Len(imgs) |->
       IF j = i THEN artist_setattr(imgs[i], p, x)
       ELSE IF all THEN propagated(artist_setattr(imgs[i], p, x), imgs[j], p)
       ELSE imgs[j]]

\* an fdata property that keeps what it reads whatever mmap says
artist_fdata_kept(a) ==
    IF ~a.fdata /\ a.map THEN [a EXCEPT !.fdata = TRUE] ELSE a

\* ImageArtist.fdata read while drawing: a handle-backed artist without
\* cache reads from the handle and keeps the data unless mmap is set
artist_fdata(a) ==
    IF ~a.fdata /\ a.map /\ ~a.mmap THEN [a EXCEPT !.fdata = TRUE] ELSE a

\* whether ImageArtist.fdata returns data (cached, or read from the handle)
HasData(a) == a.fdata \/ a.map

\* ImageArtist.load: "self.fdata is None" reads the property first
artist_load(a) ==
    IF ~HasData(artist_fdata(a)) /\ a.map
    THEN artist_fdata([artist_fdata(a) EXCEPT !.fdata = TRUE])
    ELSE artist_fdata(artist_fdata(a))

\* ImageArtist.clear: the cache of a handle-backed artist is dropped
artist_clear(a) ==
    IF HasData(artist_fdata(a)) /\ a.map
    THEN [artist_fdata(a) EXCEPT !.fdata = FALSE]
    ELSE artist_fdata(a)

\* ImageArtist.__init__ followed by _map_image: unset options take the
\* values d (the parent's, or the defaults). The mmap setter reads _fdata
\* before _map_image created it, which raises when mmap is true.
ImageArtist(h, d) ==
    [ok |-> ~Bool(d.mmap),
     a |-> [image |-> h, map |-> IsPath(h), fdata |-> ~IsPath(h),
            drawn |-> FALSE,
            show_cursor |-> d.show_cursor, equalize |-> d.equalize,
            mode |-> d.mode, interpolation |-> d.interpolation,
            colormap |-> d.colormap, mmap |-> Bool(d.mmap),
            layout |-> d.layout, device |-> "None",
            clim |-> <<"None", "None">>]]

\* the defaults of ImageArtist.__init__
Defaults ==
    [show_cursor |-> "True", equalize |-> "False", mode |-> "intensity",
     interpolation |-> "1", colormap |-> "None", mmap |-> "False",
     layout |-> "orth"]

-----------------------------------------------------------------------------
(* ImageViewer: aggregate getters *)

RECURSIVE Dedup(_, _)
Dedup(s, seen) ==
    IF s = <<>> THEN <<>>
    ELSE IF Head(s) \in seen THEN Dedup(Tail(s), seen)
    ELSE <<Head(s)>> \o Dedup(Tail(s), seen \cup {Head(s)})

\* a de-duplication that keeps the values in the reverse order
reversed_set(s) == Dedup([i \in 1..Len(s) |-> s[Len(s) + 1 - i]], {})

\* ordered_set(*values)
ordered_set(s) == Dedup(s, {})

Column(imgs, p) == [i \in 1..Len(imgs) |-> artist_getattr(imgs[i], p)]

\* ImageViewer.<p> getters
viewer_get(imgs, p) ==
    CASE p = "clim" ->
            <<ordered_set([i \in 1..Len(imgs) |-> imgs[i].clim[1]])[1],
              ordered_set([i \in 1..Len(imgs) |-> imgs[i].clim[2]])[1]>>
      [] p = "colormap" ->
            Bind(SelectSeq(Column(imgs, p), LAMBDA t : ~IsTensor(t)),
                 LAMBDA c : IF c = <<>> THEN imgs[1].colormap
                            ELSE ordered_set(c)[1])
      [] OTHER -> ordered_set(Column(imgs, p))[1]


-----------------------------------------------------------------------------
(* ImageViewer: layout and redraw *)

CeilDiv(a, b) == (a + b - 1) \div b

Max2(a, b) == IF a < b THEN b ELSE a
Min2(a, b) == IF a < b THEN a ELSE b

\* the area of the figure box around an inner grid of nr x nc units
OuterArea(nr, nc, aspect) ==
    IF QLess(Q(nc, nr), aspect)
    THEN QMul(QI(nr * nr), aspect)
    ELSE QDiv(QI(nc * nc), aspect)

\* empty_box + empty_ratio + compactness for nr x nc units holding
\* cells grid cells, given outer_area
Score(nb_image, rh, rw, cells, nr, nc, outer_area) ==
    QAdd(QAdd(QDiv(QI((cells - nb_image) * (rh * rw)), outer_area),
              QDiv(QSub(outer_area, QI(nc * nr)), outer_area)),
         Q(Max2(nr, nc) - Min2(nr, nc), 100 * Min2(nr, nc)))

\* score of the candidate with n_rows rows in the heuristic of _grid_auto
Empty(nb_image, rh, rw, aspect, n_rows) ==
    Score(nb_image, rh, rw, n_rows * CeilDiv(nb_image, n_rows),
          n_rows * rh, CeilDiv(nb_image, n_rows) * rw,
          OuterArea(n_rows * rh, CeilDiv(nb_image, n_rows) * rw, aspect))

\* one turn of the loop: the candidate replaces best when it scores less
Better(nb_image, n_rows, e, best) ==
    IF best = None \/ QLess(e, best[3])
    THEN <<n_rows, CeilDiv(nb_image, n_rows), e>>
    ELSE best

\* the loop over n_rows of _grid_auto: best is <<n_rows, n_cols, empty>>
RECURSIVE BestSize(_, _, _, _, _, _)
BestSize(nb_image, rh, rw, aspect, n_rows, best) ==
    IF n_rows > nb_image THEN best
    ELSE BestSize(nb_image, rh, rw, aspect, n_rows + 1,
                  Better(nb_image, n_rows,
                         Empty(nb_image, rh, rw, aspect, n_rows), best))

\* ImageViewer.aspect getter: width / height
aspect_of(v) == Q(v.size[1], v.size[2])

\* ImageViewer._grid_auto(nb_image); ok is false when the assertion on
\* the layout fails
\* ratio = [rh, rw] of the layout
RatioH(layout) == IF layout = "row" THEN 1 ELSE IF layout = "col" THEN 3 ELSE 2
RatioW(layout) == IF layout = "row" THEN 3 ELSE IF layout = "col" THEN 1 ELSE 2

\* the heuristic of _grid_auto, taken when no dimension is set
grid_heuristic(v, nb_image, layout) ==
    IF layout \notin LayoutValues THEN [ok |-> FALSE, grid |-> <<0, 0>>]
    ELSE Bind(BestSize(nb_image, RatioH(layout), RatioW(layout),
                       aspect_of(v), 1, None),
              LAMBDA best : [ok |-> TRUE, grid |-> <<best[1], best[2]>>])

grid_auto(v, nb_image) ==
    IF v.grid[1] # 0 /\ v.grid[2] # 0 THEN [ok |-> TRUE, grid |-> v.grid]
    ELSE IF v.grid[1] = 0 /\ v.grid[2] # 0
    THEN [ok |-> TRUE,
          grid |-> <<CeilDiv(nb_image, v.grid[2]), v.grid[2]>>]
    ELSE IF v.grid[2] = 0 /\ v.grid[1] # 0
    THEN [ok |-> TRUE,
          grid |-> <<v.grid[1], CeilDiv(nb_image, v.grid[1])>>]
    ELSE grid_heuristic(v, nb_image, viewer_get(v.images, "layout"))

\* number of artists the drawing loop of redraw gets through: artist d
\* needs the cell gs[d-1] of the grid (IndexError beyond the last cell)
\* and data to show
RECURSIVE DrawnCount(_, _, _)
DrawnCount(imgs, cells, d) ==
    IF d > Len(imgs) \/ d > cells \/ ~HasData(imgs[d]) THEN d - 1
    ELSE DrawnCount(imgs, cells, d + 1)

\* ImageViewer.redraw at time t. out is "skipped" (throttled), "drawn",
\* or "raised" (the figure was cleared and the loop did not complete)
\* the viewer after fig.clear() and the drawing of its first k artists
\* on the grid g
Drawn(v, g, k) ==
    [v EXCEPT !.images = [i \in 1..Len(v.images) |->
                            IF i <= k
                            THEN [artist_fdata(v.images[i])
                                    EXCEPT !.drawn = TRUE]
                            ELSE v.images[i]],
              !.fig = [n |-> k, index |-> v.index, fov |-> v.fov,
                       grid |-> g.grid],
              !.stale = FALSE]

\* the part of redraw after the throttle, with g the grid _grid_auto
\* returned and k the number of artists the loop gets through
redraw_loop(v, t, g, k) ==
    IF k = Len(v.images)
    THEN [v |-> [Drawn(v, g, k) EXCEPT !.last_draw = t], out |-> "drawn"]
    ELSE [v |-> Drawn(v, g, k), out |-> "raised"]

\* a redraw without the throttle
redraw_always(v, t) ==
    Bind(grid_auto(v, Len(v.images)),
         LAMBDA g :
           redraw_loop(v, t, g,
                       IF g.ok
                       THEN DrawnCount(v.images, g.grid[1] * g.grid[2], 1)
                       ELSE 0))

redraw(v, t) ==
    IF t - v.last_draw < DrawFreq THEN [v |-> v, out |-> "skipped"]
    ELSE Bind(grid_auto(v, Len(v.images)),
              LAMBDA g :
                redraw_loop(v, t, g,
                            IF g.ok
                            THEN DrawnCount(v.images,
                                            g.grid[1] * g.grid[2], 1)
                            ELSE 0))


-----------------------------------------------------------------------------
(* ImageViewer: property setters. Each returns [ok, v]: ok is false when *)
(* the setter raises, v is the viewer as the setter leaves it.            *)

IsStr(x) == x \in StrTokens

\* the value a viewer-level setter hands to every artist: [ok, val]
Normalize(p, x) ==
    CASE p = "mmap" ->
            [ok |-> TRUE, val |-> IF Bool(x) THEN "True" ELSE "False"]
      [] p = "layout" ->
            [ok |-> Lower(x) \in LayoutValues, val |-> Lower(x)]
      [] p = "show_cursor" ->
            [ok |-> TRUE,
             val |-> IF x \in {"True", "False"} THEN x ELSE Float(x)]
      [] p = "equalize" ->
            IF IsStr(x)
            THEN [ok |-> Lower(x) \in EqualizeValues, val |-> Lower(x)]
            ELSE [ok |-> TRUE, val |-> Float(x)]
      [] p = "mode" ->
            [ok |-> Lower(x) \in ModeValues, val |-> Lower(x)]
      [] p = "interpolation" ->
            [ok |-> TRUE, val |-> IF IsStr(x) THEN Lower(x) ELSE Int_(x)]
      [] p = "colormap" ->
            [ok |-> TRUE,
             val |-> IF IsStr(x) THEN x ELSE "tensor(" \o x \o ")"]
      [] OTHER -> [ok |-> TRUE, val |-> x]

\* a broadcast loop that stops after the first artist
BroadcastFirst(imgs, p, val) ==
    [i \in 1..Len(imgs) |->
        IF i = 1 THEN artist_setattr(imgs[i], p, val) ELSE imgs[i]]

\* the loop "for image in self.images: image.<p> = value"
Broadcast(imgs, p, val) ==
    [i \in 1..Len(imgs) |-> artist_setattr(imgs[i], p, val)]

\* a setter that writes to the artists before it examines the value
set_prop_unchecked(v, p, x) ==
    Bind(Normalize(p, x),
         LAMBDA n :
           [ok |-> n.ok,
            v |-> [v EXCEPT !.images = Broadcast(v.images, p, n.val)]])

\* ImageViewer.<p> setters of the nine broadcast properties
set_prop(v, p, x) ==
    Bind(Normalize(p, x),
         LAMBDA n :
           IF n.ok
           THEN [ok |-> TRUE,
                 v |-> [v EXCEPT !.images = Broadcast(v.images, p, n.val)]]
           ELSE [ok |-> FALSE, v |-> v])

\* what a new artist takes from its parent: the parent's value when the
\* parent's getter returns, else the default
Inherited(imgs) ==
    [p \in DOMAIN Defaults |-> viewer_get(imgs, p)]

\* an option that is not among the keyword arguments
Unset == "<unset>"

\* kwargs.pop(p, getattr(self.parent, p, default)) for the seven options:
\* inherit is what getattr gives, the parent's value or the default
artist_init(h, opts, inherit) ==
    ImageArtist(h, [p \in DOMAIN Defaults |->
                      IF opts[p] = Unset THEN inherit[p] ELSE opts[p]])

\* [ImageArtist(image, parent=self) for image in value]: the first
\* constructor that raises ends the comprehension
set_images(v, hs) ==
    Bind(Inherited(v.images),
         LAMBDA d :
           IF \A i \in 1..Len(hs) : ImageArtist(hs[i], d).ok
           THEN [ok |-> TRUE,
                 v |-> [v EXCEPT !.images = [i \in 1..Len(hs) |->
                                               ImageArtist(hs[i], d).a],
                                 !.stale = TRUE]]
           ELSE [ok |-> FALSE, v |-> v])

\* ImageViewer.auto_redraw setter
set_auto_redraw(v, x) ==
    [ok |-> TRUE, v |-> [v EXCEPT !.auto_redraw = Bool(x)]]

\* a grid setter that stores the tuple without comparing it with the
\* number of images
set_grid_unchecked(v, value) ==
    IF value = None
    THEN [ok |-> TRUE, v |-> [v EXCEPT !.grid = <<0, 0>>]]
    ELSE IF Len(value) # 2 THEN [ok |-> FALSE, v |-> v]
    ELSE [ok |-> TRUE, v |-> [v EXCEPT !.grid = value]]

\* ImageViewer.grid setter; value is None or a tuple
set_grid(v, value) ==
    IF value = None
    THEN [ok |-> TRUE, v |-> [v EXCEPT !.grid = <<0, 0>>]]
    ELSE IF Len(value) # 2 THEN [ok |-> FALSE, v |-> v]
    ELSE IF value[1] # 0 /\ value[2] # 0
            /\ value[1] * value[2] # Len(v.images)
    THEN [ok |-> FALSE, v |-> v]
    ELSE [ok |-> TRUE, v |-> [v EXCEPT !.grid = value]]

\* ImageViewer._max_fov
max_fov(v) ==
    compute_fov(v.space_matrix,
                [i \in 1..Len(v.images) |-> v.images[i].image])

\* the pair the fov setter stores for the lists min and max, box being
\* what _max_fov returns: when any entry is None every entry goes
\* through "mn or mn0"
Filled(min, max, box) ==
    IF (\E a \in Axes : min[a] = None) \/ (\E a \in Axes : max[a] = None)
    THEN <<[a \in Axes |-> PyOr(min[a], box[1][a])],
           [a \in Axes |-> PyOr(max[a], box[2][a])]>>
    ELSE <<min, max>>

\* a fov setter that fills the absent maxima from the minimum corner
set_fov_min_twice(v, value) ==
    [ok |-> TRUE,
     v |-> [v EXCEPT !.fov =
              IF value = None
              THEN Filled(NoneVec, NoneVec, <<max_fov(v)[1], max_fov(v)[1]>>)
              ELSE Filled(MakeList3(value[1]), MakeList3(value[2]),
                          <<max_fov(v)[1], max_fov(v)[1]>>)]]

\* ImageViewer.fov setter; value is None or <<min, max>>, min and max
\* being None or three entries
set_fov(v, value) ==
    [ok |-> TRUE,
     v |-> [v EXCEPT !.fov =
              IF value = None
              THEN Filled(NoneVec, NoneVec, max_fov(v))
              ELSE Filled(MakeList3(value[1]), MakeList3(value[2]),
                          max_fov(v))]]

\* ImageViewer.index setter: absent entries become the middle of the fov
set_index(v, value) ==
    [ok |-> TRUE,
     v |-> [v EXCEPT !.index =
              [a \in Axes |->
                 IF MakeList3(value)[a] = None
                 THEN QDiv(QAdd(v.fov[2][a], v.fov[1][a]), QI(2))
                 ELSE MakeList3(value)[a]]]]

\* ImageViewer.space setter. value: "None", an int ("0", "1", ...), a
\* 4x4 tensor "M", a tensor of another shape "M3x3", or anything else.
\* The value is stored before it is examined.
SpaceIndex(x) == CASE x = "0" -> 1 [] x = "1" -> 2 [] x = "2" -> 3
                   [] x = "3" -> 4 [] OTHER -> 0

\* the part of the space setter after self._space = x (v1 is the viewer
\* with the value stored)
space_matrix_of(v1, x) ==
    CASE x = "M" ->
           [ok |-> TRUE, v |-> [v1 EXCEPT !.space_matrix = "M"]]
      [] x = "M3x3" -> [ok |-> FALSE, v |-> v1]
      [] SpaceIndex(x) # 0 ->
           IF SpaceIndex(x) <= Len(v1.images)
           THEN [ok |-> TRUE,
                 v |-> [v1 EXCEPT !.space_matrix =
                          "affine(" \o v1.images[SpaceIndex(x)].image
                                    \o ")"]]
           ELSE [ok |-> FALSE, v |-> v1]
      [] x = "None" ->
           [ok |-> TRUE,
            v |-> [v1 EXCEPT !.space_matrix =
                     IF MinVoxelSize([i \in 1..Len(v1.images) |->
                                        v1.images[i].image]) = 1
                     THEN "eye*1" ELSE "eye*2"]]
      [] OTHER -> [ok |-> FALSE, v |-> v1]

set_space(v, x) == space_matrix_of([v EXCEPT !.space = x], x)


-----------------------------------------------------------------------------
(* ImageViewer: attribute-write interception and event handlers. Each    *)
(* returns [v, ok, req, exe]: the viewer afterwards, whether the call     *)
(* returned (false: it raised), the number of calls of redraw it made     *)
(* and the number of those that were not throttled.                       *)

\* names with key[0] == '_'
InternalKeys == {"_auto_redraw", "_is_pressed", "_index", "_fov", "_grid"}

Returned(v) == [v |-> v, ok |-> TRUE, req |-> 0, exe |-> 0]
Raised(v) == [v |-> v, ok |-> FALSE, req |-> 0, exe |-> 0]

\* a call self.redraw(...)
call_redraw(v, t) ==
    Bind(redraw(v, t),
         LAMBDA r : [v |-> r.v, ok |-> r.out # "raised", req |-> 1,
                     exe |-> IF r.out = "skipped" THEN 0 ELSE 1])

\* statement sequencing: F runs on the viewer r left, unless r raised
After(r, q) ==
    [v |-> q.v, ok |-> q.ok, req |-> r.req + q.req, exe |-> r.exe + q.exe]

Then(r, F(_)) == IF ~r.ok THEN r ELSE After(r, F(r.v))

\* ImageViewer.size setter; value is a tuple. After the length check the
\* setter calls self.fig.get_size_inches(*value): the figure's getter,
\* which takes no argument, so the call raises and the figure keeps its
\* size
set_size(v, value) ==
    IF Len(value) # 2
    THEN [ok |-> FALSE, v |-> v]      \* ValueError
    ELSE [ok |-> FALSE, v |-> v]      \* TypeError of get_size_inches

\* the number whose fourth power is x
Root4(x) == [root4 |-> x]

\* (s0, s1) of the aspect setter: area = sqrt(s0*s1),
\* s0 = sqrt(area * value), s1 = sqrt(area / value)
aspect_size(v, value) ==
    <<Root4(QMul(Q(v.size[1] * v.size[2], 1), QMul(value, value))),
      Root4(QDiv(Q(v.size[1] * v.size[2], 1), QMul(value, value)))>>

\* ImageViewer.aspect setter; value is a number or None
set_aspect(v, value) ==
    IF value = None THEN [ok |-> FALSE, v |-> v]
    ELSE set_size(v, aspect_size(v, value))

\* object.__setattr__(self, key, value): the property setter of key, or
\* the plain instance attribute
store(v, key, value) ==
    CASE key \in Props -> set_prop(v, key, value)
      [] key = "images" -> set_images(v, value)
      [] key = "auto_redraw" -> set_auto_redraw(v, value)
      [] key = "grid" -> set_grid(v, value)
      [] key = "fov" -> set_fov(v, value)
      [] key = "index" -> set_index(v, value)
      [] key = "space" -> set_space(v, value)
      [] key = "size" -> set_size(v, value)
      [] key = "aspect" -> set_aspect(v, value)
      [] key = "_auto_redraw" ->
            [ok |-> TRUE, v |-> [v EXCEPT !.auto_redraw = value]]
      [] key = "_is_pressed" ->
            [ok |-> TRUE, v |-> [v EXCEPT !.is_pressed = value]]

\* an interception that reads auto_redraw after the value is stored
setattr_late(v, key, value, t) ==
    Bind(store(v, key, value),
         LAMBDA s :
           IF ~s.ok THEN Raised(s.v)
           ELSE IF key \notin InternalKeys /\ s.v.auto_redraw
           THEN call_redraw(s.v, t)
           ELSE Returned(s.v))

\* ImageViewer.__setattr__: do_redraw is decided before the value is
\* stored, the redraw is issued after
setattr(v, key, value, t) ==
    Bind(key \notin InternalKeys /\ v.auto_redraw,
         LAMBDA do_redraw :
           Bind(store(v, key, value),
                LAMBDA s :
                  IF ~s.ok THEN Raised(s.v)
                  ELSE IF do_redraw THEN call_redraw(s.v, t)
                  ELSE Returned(s.v)))

\* ImageViewer.fov_size getter
fov_size(v) == [a \in Axes |-> QSub(v.fov[2][a], v.fov[1][a])]

\* the lists min and max of the fov_size setter: sign is -1 for min and
\* 1 for max
fov_around(v, value, sign) ==
    [a \in Axes |->
       IF Truthy(MakeList3(value)[a])
       THEN QAdd(v.index[a],
                 QMul(QI(sign), QDiv(MakeList3(value)[a], QI(2))))
       ELSE None]

\* viewer.fov_size = value: the interception of fov_size, whose setter
\* ends with the assignment self.fov = [min, max], itself intercepted
setattr_fov_size(v, value, t) ==
    Then(setattr(v, "fov",
                 <<fov_around(v, value, 0 - 1), fov_around(v, value, 1)>>, t),
         LAMBDA w : IF v.auto_redraw THEN call_redraw(w, t) ELSE Returned(w))

\* ImageViewer._image_from_ax(ax). ax is the number of the artist whose
\* panel the pointer is over, or -1 for an axes of the figure that no
\* current artist owns. image is 0 for (None, None); ok is false when an
\* artist met before the owner has no _axes yet (AttributeError).
image_from_ax(imgs, ax) ==
    IF ax >= 1 /\ \A i \in 1..Len(imgs) : imgs[i].drawn \/ ax < i
    THEN [ok |-> TRUE, image |-> ax]
    ELSE IF \E i \in 1..Len(imgs) : ~imgs[i].drawn
    THEN [ok |-> FALSE, image |-> 0]
    ELSE [ok |-> TRUE, image |-> 0]

\* ImageViewer._index_from_cursor(x, y, image, n_ax): p is the point
\* affine_matvec(image._mats[n_ax], [x, y, 0]) under the pointer
index_from_cursor(v, p, image, t) ==
    IF image = 0 THEN Raised(v) ELSE setattr(v, "index", p, t)

\* a release handler that leaves the drag state alone
on_release_stuck(v, ev, t) == Returned(v)

\* ImageViewer.on_release
on_release(v, ev, t) ==
    IF ev.button = 1 THEN setattr(v, "_is_pressed", FALSE, t)
    ELSE Returned(v)

\* the body shared by on_press and on_move once the pointer is known to
\* be over an axes
locate_and_redraw(v, ev, t) ==
    Bind(image_from_ax(v.images, ev.inaxes),
         LAMBDA f :
           IF ~f.ok THEN Raised(v)
           ELSE Then(index_from_cursor(v, ev.p, f.image, t),
                     LAMBDA w : call_redraw(w, t)))

\* ImageViewer.on_press
on_press(v, ev, t) ==
    IF ev.button = 1
    THEN Then(setattr(v, "_is_pressed", TRUE, t),
              LAMBDA w : IF ev.inaxes # 0 THEN locate_and_redraw(w, ev, t)
                         ELSE Returned(w))
    ELSE Returned(v)

\* ImageViewer.on_move
on_move(v, ev, t) ==
    IF v.is_pressed /\ ev.inaxes # 0 THEN locate_and_redraw(v, ev, t)
    ELSE Returned(v)

\* ImageViewer.on_resize
on_resize(v, t) == call_redraw(v, t)

\* new_min and new_max of on_scroll for the factor step_size
new_min(v, step_size) ==
    [a \in Axes |->
       QSub(v.index[a], QMul(step_size, QSub(v.index[a], v.fov[1][a])))]

new_max(v, step_size) ==
    [a \in Axes |->
       QAdd(new_min(v, step_size)[a],
            QMul(step_size, QSub(v.fov[2][a], v.fov[1][a])))]

\* a zoom whose factor is scroll_step ** steps
zoomed_fov_inverse(v, steps) ==
    Bind(QPow(v.scroll_step, steps),
         LAMBDA step_size : <<new_min(v, step_size), new_max(v, step_size)>>)

\* the field of view on_scroll computes from self.index and self.fov
zoomed_fov(v, steps) ==
    Bind(QPow(v.scroll_step, 0 - steps),
         LAMBDA step_size : <<new_min(v, step_size), new_max(v, step_size)>>)

\* the axes the lookup of on_scroll is made with. The assignment that
\* suspends auto_redraw is itself intercepted: when it redraws (r1.exe),
\* the figure is cleared and the axes of the event is no longer an axes
\* of any artist (-1).
scroll_axes(r1, ev) ==
    IF r1.exe > 0 /\ ev.inaxes # 0 THEN 0 - 1 ELSE ev.inaxes

\* "if event.inaxes: ..." of on_scroll: the cursor goes under the pointer
scroll_locate(w, ev, ax, t) ==
    IF ev.inaxes = 0 THEN Returned(w)
    ELSE Bind(image_from_ax(w.images, ax),
              LAMBDA f :
                IF ~f.ok THEN Raised(w)
                ELSE IF f.image # 0
                THEN index_from_cursor(w, ev.p, f.image, t)
                ELSE Returned(w))

\* on_scroll up to and including the assignment of the new fov, r1
\* being the outcome of its first statement
scroll_zoom(r1, ev, t) ==
    Then(Then(r1, LAMBDA w : scroll_locate(w, ev, scroll_axes(r1, ev), t)),
         LAMBDA w : setattr(w, "fov", zoomed_fov(w, ev.step), t))

\* the last two statements of on_scroll
scroll_finish(r, auto, t) ==
    Then(Then(r, LAMBDA w : call_redraw(w, t)),
         LAMBDA w :
           setattr(w, "auto_redraw", IF auto THEN "True" ELSE "False", t))

\* a scroll handler that does not put the cursor back
on_scroll_no_restore(v, ev, t) ==
    scroll_finish(scroll_zoom(setattr(v, "auto_redraw", "False", t), ev, t),
                  v.auto_redraw, t)

\* ImageViewer.on_scroll
on_scroll(v, ev, t) ==
    scroll_finish(
        Then(scroll_zoom(setattr(v, "auto_redraw", "False", t), ev, t),
             LAMBDA w : setattr(w, "index", v.index, t)),
        v.auto_redraw, t)


-----------------------------------------------------------------------------
(* Inputs *)

ListsOf(hs) == UNION {[1..n -> hs] : n \in 1..MaxImages}
ImageLists == ListsOf(Handles)
PathLists == ListsOf({"a.nii"})

\* figure sizes (width, height) and zoom bases given at construction
Sizes == {<<4, 3>>, <<1, 3>>}
ScrollSteps == {2}

\* grid = None, (rows, cols) with 0 for None, or a tuple of another length
GridInputs ==
    {None, <<1, 1, 1>>} \cup ((0..MaxImages) \X (0..MaxImages))

P0 == <<QI(0), QI(0), QI(0)>>
P1 == <<QI(1), QI(0 - 2), QI(3)>>

FovInputs ==
    {None, <<None, None>>, <<P0, <<QI(2), QI(2), QI(2)>>>>,
     <<<<QI(0), None, QI(1)>>, None>>,
     <<None, <<QI(3), QI(0), None>>>>}

IndexInputs == {None, P1, <<QI(1), None, QI(0)>>}

SpaceInputs == {"None", "0", "1", "M", "M3x3", "ras"}

Buttons == {1, 3}
PointerPoints == {P0, P1}
ScrollSteps_ == {0 - 1, 1}

\* the axes a pointer event can be over: none (0), a panel of an artist
\* shown in the figure, or (-1) an axes left from replaced artists
InAxes(v) ==
    {0} \cup (IF v.fig.n = 0 THEN {}
              ELSE IF v.stale THEN {0 - 1} ELSE 1..v.fig.n)

\* button events, motion events and scroll events
ButtonEvents(v) == [button : Buttons, inaxes : InAxes(v), p : PointerPoints]
MotionEvents(v) == [inaxes : InAxes(v), p : PointerPoints]
ScrollEvents(v) == [inaxes : InAxes(v), p : PointerPoints, step : ScrollSteps_]

-----------------------------------------------------------------------------
(* Initial state: ImageViewer.__init__ *)

\* ImageViewer(images, auto_redraw=auto, scroll_step=step, size=size)
\* at time 0: images, grid, space, fov, index, the keyword arguments and
\* the first redraw
ImageViewer(hs, auto, step, size) ==
    redraw(
      set_auto_redraw(
        set_index(
          set_fov(
            set_space(
              [images |-> [i \in 1..Len(hs) |->
                             ImageArtist(hs[i], Defaults).a],
               auto_redraw |-> FALSE, is_pressed |-> FALSE,
               grid |-> <<0, 0>>, space |-> "None",
               space_matrix |-> "eye*1",
               fov |-> <<NoneVec, NoneVec>>, index |-> NoneVec,
               scroll_step |-> step, size |-> size,
               last_draw |-> 0 - DrawFreq,
               stale |-> FALSE,
               fig |-> [n |-> 0, index |-> NoneVec,
                        fov |-> <<NoneVec, NoneVec>>, grid |-> <<0, 0>>]],
              "None").v,
            None).v,
          None).v,
        IF auto THEN "True" ELSE "False").v,
      0).v

\* no library routine is running
NoRoutine == [name |-> "none"]

NoOp == [op |-> "init", key |-> "", arg |-> None, stored |-> FALSE,
         ok |-> TRUE, req |-> 0, exe |-> 0]

\* a viewer built from one of the image lists hss, with auto_redraw and
\* figure size among autos and sizes
InitWith(hss, autos, sizes) ==
    /\ \E hs \in hss, auto \in autos, step \in ScrollSteps, size \in sizes :
          viewer = ImageViewer(hs, auto, step, size)
    /\ now = 0
    /\ nscroll = 0
    /\ held = FALSE
    /\ last = NoOp
    /\ routine = NoRoutine

Init == InitWith(ImageLists, BOOLEAN, Sizes)

-----------------------------------------------------------------------------
(* Actions. last records the call just made: its name, the attribute and  *)
(* value or the event, whether the property setter stored the value,      *)
(* whether the call returned, and its redraw calls.                       *)

Done(op, key, arg, stored, r) ==
    /\ viewer' = r.v
    /\ last' = [op |-> op, key |-> key, arg |-> arg, stored |-> stored,
                ok |-> r.ok, req |-> r.req, exe |-> r.exe]
    /\ UNCHANGED routine

\* viewer.<key> = value
Assign(key, value) ==
    /\ Done("setattr", key, value, store(viewer, key, value).ok,
            setattr(viewer, key, value, now))
    /\ UNCHANGED <<now, nscroll, held>>

\* the properties some artist holds another value of than a newly built
\* viewer gives it
Changed(v) ==
    {p \in Props : \E i \in 1..Len(v.images) :
        v.images[i][p] # (CASE p = "mmap" -> FALSE
                            [] p = "device" -> "None"
                            [] p = "clim" -> <<"None", "None">>
                            [] OTHER -> Defaults[p])}

AssignProp ==
    \E p \in Props : \E x \in Inputs(p) :
        /\ Cardinality(Changed(viewer) \ {p}) < MaxChanged
        /\ Assign(p, x)
AssignLayout == \E x \in Inputs("layout") : Assign("layout", x)
AssignAutoRedraw == \E x \in {"True", "False"} : Assign("auto_redraw", x)
AssignInternal == \E b \in BOOLEAN : Assign("_auto_redraw", b)
AssignImages == \E hs \in ImageLists : Assign("images", hs)
AssignPaths == \E hs \in PathLists : Assign("images", hs)
AssignGrid == \E g \in GridInputs : Assign("grid", g)
AssignFov == \E f \in FovInputs : Assign("fov", f)
AssignIndex == \E x \in IndexInputs : Assign("index", x)
AssignSpace == \E x \in SpaceInputs : Assign("space", x)

\* viewer.size = (w, h), or a tuple of another length
FigSizeInputs == {<<4, 3>>, <<2, 2>>, <<1, 3>>, <<4>>}
AssignSize == \E x \in FigSizeInputs : Assign("size", x)

\* viewer.aspect = r
AspectInputs == {Q(1, 1), Q(4, 3), Q(1, 3), None}
AssignAspect == \E x \in AspectInputs : Assign("aspect", x)

\* viewer.fov_size = s
SizeInputs ==
    {<<QI(2), QI(2), QI(2)>>, <<QI(1), QI(4), QI(3)>>,
     <<QI(2), QI(0), QI(2)>>, <<QI(1), None, QI(4)>>, None}

AssignFovSize ==
    \E x \in SizeInputs :
        /\ Done("setattr", "fov_size", x, TRUE,
                setattr_fov_size(viewer, x, now))
        /\ UNCHANGED <<now, nscroll, held>>

\* viewer.redraw()
Redraw ==
    /\ Done("redraw", "", None, FALSE, call_redraw(viewer, now))
    /\ UNCHANGED <<now, nscroll, held>>

\* a button goes down
OnPress ==
    \E ev \in ButtonEvents(viewer) :
        /\ Done("on_press", "", ev, FALSE, on_press(viewer, ev, now))
        /\ held' = IF ev.button = 1 THEN TRUE ELSE held
        /\ UNCHANGED <<now, nscroll>>

\* the pointer moves
OnMove ==
    \E ev \in MotionEvents(viewer) :
        /\ Done("on_move", "", ev, FALSE, on_move(viewer, ev, now))
        /\ UNCHANGED <<now, nscroll, held>>

\* a button goes up
OnRelease ==
    \E ev \in ButtonEvents(viewer) :
        /\ Done("on_release", "", ev, FALSE, on_release(viewer, ev, now))
        /\ held' = IF ev.button = 1 THEN FALSE ELSE held
        /\ UNCHANGED <<now, nscroll>>

\* the canvas is resized
OnResize ==
    /\ Done("on_resize", "", None, FALSE, on_resize(viewer, now))
    /\ UNCHANGED <<now, nscroll, held>>

\* the wheel turns by ev.step
OnScroll ==
    /\ nscroll < MaxScroll
    /\ \E ev \in ScrollEvents(viewer) :
        Done("on_scroll", "", ev, FALSE, on_scroll(viewer, ev, now))
    /\ nscroll' = nscroll + 1
    /\ UNCHANGED <<now, held>>

\* a call on the artist viewer.images[i] that leaves it as a; the viewer
\* object is not assigned to
ArtistCall(op, key, i, x, a) ==
    /\ Done(op, key, [i |-> i, x |-> x], FALSE,
            Returned([viewer EXCEPT !.images[i] = a]))
    /\ UNCHANGED <<now, nscroll, held>>

\* viewer.images[i].fdata
ArtistFdata ==
    \E i \in 1..Len(viewer.images) :
        ArtistCall("artist.fdata", "", i, "", artist_fdata(viewer.images[i]))

\* viewer.images[i].load()
ArtistLoad ==
    \E i \in 1..Len(viewer.images) :
        ArtistCall("artist.load", "", i, "", artist_load(viewer.images[i]))

\* viewer.images[i].clear()
ArtistClear ==
    \E i \in 1..Len(viewer.images) :
        ArtistCall("artist.clear", "", i, "", artist_clear(viewer.images[i]))

\* viewer.images[i].mmap = x and viewer.images[i].device = x
ArtistAssign ==
    \E i \in 1..Len(viewer.images), p \in {"mmap", "device"} :
        \E x \in Inputs(p) :
            ArtistCall("artist.setattr", p, i, x,
                       artist_setattr(viewer.images[i], p, x))

\* viewer.images[i].set_<p>(x, all=all)
ArtistSet ==
    \E i \in 1..Len(viewer.images), p \in Props, all \in BOOLEAN :
        \E x \in Inputs(p) :
            /\ Cardinality(Changed(viewer) \ {p}) < MaxChanged
            /\ Done("artist.set", p, [i |-> i, x |-> x, all |-> all], FALSE,
                    Returned([viewer EXCEPT !.images =
                                artist_set(viewer.images, i, p, x, all)]))
            /\ UNCHANGED <<now, nscroll, held>>

\* keyword arguments of a constructor call: none, one option, or two
NoOptions == [p \in DOMAIN Defaults |-> Unset]
OptionSets ==
    {NoOptions, [NoOptions EXCEPT !.mmap = "True", !.layout = "row"]}
      \cup UNION {{[NoOptions EXCEPT ![p] = x] : x \in Inputs(p)} :
                     p \in DOMAIN Defaults}

\* ImageArtist(h, **opts) and ImageArtist(h, parent=viewer, **opts); the
\* artist built is kept in the record of the call
ArtistInit ==
    \E h \in Handles, opts \in OptionSets, parent \in BOOLEAN :
        /\ Bind(artist_init(h, opts, IF parent THEN Inherited(viewer.images)
                                     ELSE Defaults),
                LAMBDA r :
                  Done("artist.init", "",
                       [h |-> h, opts |-> opts, parent |-> parent, a |-> r.a],
                       r.ok,
                       IF r.ok THEN Returned(viewer) ELSE Raised(viewer)))
        /\ UNCHANGED <<now, nscroll, held>>

\* viewer.mmap = x and viewer.device = x
AssignCache ==
    \E p \in {"mmap", "device"} : \E x \in Inputs(p) : Assign(p, x)

\* time passes between two calls
Tick ==
    /\ now < MaxTime
    /\ now' = now + 1
    /\ last' = [NoOp EXCEPT !.op = "tick"]
    /\ UNCHANGED <<viewer, nscroll, held, routine>>

Next ==
    \/ AssignProp \/ AssignAutoRedraw \/ AssignInternal \/ AssignImages
    \/ AssignGrid \/ AssignFov \/ AssignIndex \/ AssignSpace
    \/ Redraw \/ OnPress \/ OnMove \/ OnRelease \/ OnResize \/ OnScroll
    \/ Tick

Spec == Init /\ [][Next]_vars

\* the broadcast properties
InitProps == InitWith(ImageLists, BOOLEAN, {<<4, 3>>})
NextProps == AssignProp \/ AssignAutoRedraw \/ Tick
SpecProps == InitProps /\ [][NextProps]_vars

\* the grid, the image list and the redraws
InitDraw == InitWith(PathLists, BOOLEAN, Sizes)
NextDraw ==
    \/ AssignGrid \/ AssignPaths \/ AssignLayout \/ AssignAutoRedraw
    \/ AssignInternal \/ Redraw \/ Tick
SpecDraw == InitDraw /\ [][NextDraw]_vars

\* the field of view
InitFov == InitWith(ImageLists, BOOLEAN, {<<4, 3>>})
NextFov == AssignFov \/ AssignSpace \/ AssignImages
SpecFov == InitFov /\ [][NextFov]_vars

\* the aggregate getters
InitRead == InitWith(ImageLists, {FALSE}, {<<4, 3>>})
NextRead == AssignProp \/ ArtistSet
SpecRead == InitRead /\ [][NextRead]_vars

\* the size of the field of view
InitFovSize == InitWith(ImageLists, BOOLEAN, {<<4, 3>>})
NextFovSize == AssignFovSize \/ AssignIndex
SpecFovSize == InitFovSize /\ [][NextFovSize]_vars

\* the size of the figure
InitSize == InitWith(ImageLists, BOOLEAN, Sizes)
NextSize == AssignSize \/ AssignAspect \/ OnResize
SpecSize == InitSize /\ [][NextSize]_vars

InitCache == InitWith(ImageLists, {FALSE}, {<<4, 3>>})
NextCache ==
    \/ ArtistFdata \/ ArtistLoad \/ ArtistClear \/ ArtistAssign
    \/ AssignCache \/ Redraw \/ Tick
SpecCache == InitCache /\ [][NextCache]_vars

InitSet == InitWith(ImageLists, BOOLEAN, {<<4, 3>>})
NextSet == ArtistSet \/ AssignAutoRedraw \/ Redraw \/ Tick
SpecSet == InitSet /\ [][NextSet]_vars

\* construction of artists
InitBuild == InitWith(ImageLists, {FALSE}, {<<4, 3>>})
NextBuild == ArtistInit \/ AssignProp \/ AssignImages
SpecBuild == InitBuild /\ [][NextBuild]_vars

InitPointer == InitWith(PathLists, BOOLEAN, {<<4, 3>>})
NextPointer ==
    \/ OnPress \/ OnMove \/ OnRelease \/ OnResize \/ OnScroll
    \/ AssignAutoRedraw \/ AssignPaths \/ Tick
SpecPointer == InitPointer /\ [][NextPointer]_vars


-----------------------------------------------------------------------------
(* _classic.prepare(inputs, device). A tensor is [val, device, dtype]: val *)
(* names its values, which a cast keeps.                                   *)

Tensor(val, device, dtype) == [val |-> val, device |-> device, dtype |-> dtype]

\* tensor.to(device=device, dtype=dtype); device None keeps the device
To(t, device, dtype) ==
    [t EXCEPT !.device = IF device = "None" THEN @ ELSE device,
              !.dtype = dtype]

\* the inputs: a file path, an array or tensor, a list or tuple
Path(name) == [kind |-> "path", name |-> name, t |-> None, items |-> <<>>]
Array(t) == [kind |-> "array", name |-> "", t |-> t, items |-> <<>>]
Seq_(items) == [kind |-> "seq", name |-> "", t |-> None, items |-> items]

\* io.map(path).fdata(rand=True) and .affine
MappedData(name) == Tensor("fdata(" \o name \o ")", "cpu", "float32")
MappedAffine(name) == Tensor("affine(" \o name \o ")", "cpu", "float64")

\* spatial.affine_default(shape)
affine_default == Tensor("affine_default", "cpu", "float64")

\* prepare_one(inp): list is true when the pair is returned as a list
\* ([inp, aff]) and false when it is returned as a tuple
RECURSIVE prepare_one(_)
prepare_one(inp) ==
    CASE inp.kind = "seq" ->
           [data |-> prepare_one(inp.items[1]).data,
            aff |-> IF Len(inp.items) > 1 THEN inp.items[2]
                    ELSE prepare_one(inp.items[1]).aff,
            list |-> FALSE]
      [] inp.kind = "path" ->
           [data |-> MappedData(inp.name), aff |-> MappedAffine(inp.name),
            list |-> FALSE]
      [] OTHER -> [data |-> inp.t, aff |-> affine_default, list |-> TRUE]

\* the call prepare(inputs, device) before its first statement
PrepareCall(inputs, device) ==
    [name |-> "prepare", pc |-> "prepare_one", inputs |-> inputs,
     device |-> device, prepared |-> <<>>, i |-> 1,
     backend |-> [device |-> "None", dtype |-> "None"]]

\* "for inp in inputs: prepared.append(prepare_one(inp))", one turn
prepare_append(r) ==
    [r EXCEPT !.prepared = Append(@, prepare_one(r.inputs[r.i])),
              !.i = IF r.i = Len(r.inputs) THEN 1 ELSE r.i + 1,
              !.pc = IF r.i = Len(r.inputs) THEN "cast_first" ELSE @]

\* "prepared[0][0] = prepared[0][0].to(device=device, dtype=float32)"
\* and the backend taken from it; assigning to an entry of a tuple raises
prepare_cast_first(r) ==
    IF ~r.prepared[1].list THEN [r EXCEPT !.pc = "raised"]
    ELSE [r EXCEPT !.prepared[1].data = To(@, r.device, "float32"),
                   !.backend = [device |-> To(r.prepared[1].data, r.device,
                                              "float32").device,
                                dtype |-> "float32"],
                   !.pc = "cast_each"]

\* "prepared[i][0] = ...to(**backend); prepared[i][1] = ...", one turn
prepare_cast_each(r) ==
    IF ~r.prepared[r.i].list THEN [r EXCEPT !.pc = "raised"]
    ELSE [r EXCEPT !.prepared[r.i].data =
                      To(@, r.backend.device, r.backend.dtype),
                   !.prepared[r.i].aff =
                      To(@, r.backend.device, r.backend.dtype),
                   !.i = r.i + 1,
                   !.pc = IF r.i = Len(r.inputs) THEN "returned" ELSE @]

\* the tensors and orientation matrices callers hand in
TensorA == Tensor("A", "cpu", "float64")
TensorB == Tensor("B", "cuda", "int16")
AffineM == Tensor("M", "cpu", "float64")
AffineN == Tensor("N", "cuda", "float32")

\* a prepared pair is (tensor, orientation)
Pairs == {Seq_(<<Array(TensorA), AffineM>>), Seq_(<<Array(TensorB), AffineN>>)}

PrepareInputs ==
    Pairs \cup
    {Path("a.nii"), Array(TensorA), Array(TensorB),
     Seq_(<<Path("a.nii"), AffineM>>), Seq_(<<Array(TensorA)>>),
     Seq_(<<Seq_(<<Array(TensorA), AffineM>>), AffineN>>)}

Batches == UNION {[1..n -> PrepareInputs] : n \in 1..MaxBatch}

Devices == {"None", "cpu", "cuda"}

\* a state in which a library routine has just been called; the viewer
\* plays no part
InitRoutine(calls) ==
    /\ viewer = ImageViewer(<<"arr">>, FALSE, 2, <<4, 3>>)
    /\ now = 0
    /\ nscroll = 0
    /\ held = FALSE
    /\ last = NoOp
    /\ routine \in calls

Step(r) ==
    /\ routine' = r
    /\ UNCHANGED <<viewer, now, nscroll, held, last>>

PrepareOne ==
    /\ routine.name = "prepare" /\ routine.pc = "prepare_one"
    /\ Step(prepare_append(routine))

PrepareCastFirst ==
    /\ routine.name = "prepare" /\ routine.pc = "cast_first"
    /\ Step(prepare_cast_first(routine))

PrepareCastEach ==
    /\ routine.name = "prepare" /\ routine.pc = "cast_each"
    /\ Step(prepare_cast_each(routine))

InitPrepare ==
    InitRoutine({PrepareCall(b, d) : b \in Batches, d \in Devices})
NextPrepare == PrepareOne \/ PrepareCastFirst \/ PrepareCastEach
SpecPrepare == InitPrepare /\ [][NextPrepare]_vars

-----------------------------------------------------------------------------
(* The optimisation loops of _classic.affine, _classic.diffeo and          *)
(* phase.phase_fit. What the loss, the optimiser and the solver compute is *)
(* outside these files: each iteration draws its objective from a small    *)
(* set. A float is <<"fin", n>>, <<"inf", 0>>, <<"ninf", 0>> or            *)
(* <<"nan", 0>>; finite objectives are whole numbers of a unit that, for   *)
(* phase_fit, is the threshold n * 1e-4.                                   *)

Fin(n) == <<"fin", n>>
Inf == <<"inf", 0>>
NegInf == <<"ninf", 0>>
NaN == <<"nan", 0>>

\* a - b in floats
ESub(a, b) ==
    CASE a = NaN \/ b = NaN -> NaN
      [] a[1] = "fin" /\ b[1] = "fin" -> Fin(a[2] - b[2])
      [] a = b -> NaN
      [] a[1] = "fin" -> IF b = Inf THEN NegInf ELSE Inf
      [] OTHER -> a

\* a + b in floats
EAdd(a, b) ==
    CASE a = NaN \/ b = NaN -> NaN
      [] a[1] = "fin" /\ b[1] = "fin" -> Fin(a[2] + b[2])
      [] a[1] = "fin" -> b
      [] b[1] = "fin" -> a
      [] a = b -> a
      [] OTHER -> NaN

\* abs(c) < tol; false for nan and the infinities
AbsBelow(c, tol) == c[1] = "fin" /\ Abs(c[2]) < tol

\* the call of affine or diffeo at "loss_val = core.constants.inf", or of
\* phase_fit at "ll0 = lr0 = factor = float('inf')"
LoopCall(name, max_iter, tolerance) ==
    [name |-> name, pc |-> IF max_iter = 0 THEN "after_loop" ELSE "loop",
     n_iter |-> 0, max_iter |-> max_iter, tolerance |-> tolerance,
     loss_val0 |-> Inf, loss_val |-> Inf,
     ll0 |-> Inf, lr0 |-> Inf, ll |-> Inf, lr |-> Inf,
     broke |-> FALSE]

\* the for statement after a turn that did not break: n_iter counts the
\* turns made
next_turn(r) ==
    [r EXCEPT !.n_iter = @ + 1,
              !.pc = IF r.n_iter + 1 = r.max_iter THEN "after_loop"
                     ELSE "loop"]

\* a loop that goes on until the tolerance is met
optim_iter_uncapped(r, loss) ==
    IF AbsBelow(ESub(r.loss_val, loss), r.tolerance)
    THEN [r EXCEPT !.loss_val0 = r.loss_val, !.loss_val = loss,
                   !.n_iter = @ + 1, !.pc = "after_loop", !.broke = TRUE]
    ELSE [r EXCEPT !.loss_val0 = r.loss_val, !.loss_val = loss]

\* one turn of the loop of affine and of diffeo, loss being the value the
\* loss function returns: crit = loss_val0 - loss_val
optim_iter(r, loss) ==
    IF AbsBelow(ESub(r.loss_val, loss), r.tolerance)
    THEN [r EXCEPT !.loss_val0 = r.loss_val, !.loss_val = loss,
                   !.n_iter = @ + 1, !.pc = "after_loop", !.broke = TRUE]
    ELSE next_turn([r EXCEPT !.loss_val0 = r.loss_val, !.loss_val = loss])

\* abs(gain) < n * 1e-4 of phase_fit, with gain = l0 - l,
\* l0 = ll0 + factor_ratio * lr0 and l = ll + lr. On the first turn
\* ll0, lr0 and factor_ratio are inf. Later factor_ratio is
\* (1 + 10 ** (5 - n_iter)) / (1 + 10 ** (6 - n_iter)), strictly between
\* 0 and 1; with lr0 0 or 1 and the threshold 1, l0 - l is below the
\* threshold exactly when ll0 - l is 0, or lr0 is 1 and ll0 - l is -1.
phase_below(r, ll, lr) ==
    /\ r.n_iter > 0
    /\ AbsBelow(ESub(r.ll0, EAdd(ll, lr)), 2)
    /\ r.lr0[1] = "fin"
    /\ \/ ESub(r.ll0, EAdd(ll, lr)) = Fin(0)
       \/ r.lr0 = Fin(1) /\ ESub(r.ll0, EAdd(ll, lr)) = Fin(0 - 1)

\* one turn of the loop of phase_fit, ll and lr being the likelihood and
\* regularisation terms computed in it
phase_iter(r, ll, lr) ==
    IF phase_below(r, ll, lr)
    THEN [r EXCEPT !.ll = ll, !.lr = lr, !.n_iter = @ + 1,
                   !.pc = "after_loop", !.broke = TRUE]
    ELSE next_turn([r EXCEPT !.ll = ll, !.lr = lr, !.ll0 = ll, !.lr0 = lr])

\* the statements after the loop, ending in return
loop_return(r) == [r EXCEPT !.pc = "returned"]

\* objectives an iteration may compute
Losses == {Fin(0), Fin(1), Fin(3), Inf, NaN}
Regs == {Fin(0), Fin(1)}
Tolerances == {1, 2}

OptimIter ==
    /\ routine.name \in {"affine", "diffeo"} /\ routine.pc = "loop"
    /\ \E loss \in Losses : Step(optim_iter(routine, loss))

PhaseIter ==
    /\ routine.name = "phase_fit" /\ routine.pc = "loop"
    /\ \E ll \in Losses, lr \in Regs : Step(phase_iter(routine, ll, lr))

LoopReturn ==
    /\ routine.name \in {"affine", "diffeo", "phase_fit"}
    /\ routine.pc = "after_loop"
    /\ Step(loop_return(routine))

InitLoops ==
    InitRoutine({LoopCall(f, m, t) : f \in {"affine", "diffeo"},
                                     m \in 0..MaxIter, t \in Tolerances}
                \cup {LoopCall("phase_fit", PhaseIters, 1)})
NextLoops == OptimIter \/ PhaseIter \/ LoopReturn
SpecLoops == InitLoops /\ [][NextLoops]_vars
\* a routine that has been called keeps running until it returns
FairLoops == SpecLoops /\ WF_vars(NextLoops)

-----------------------------------------------------------------------------
(* _classic.affine(source, target, ...) as a whole: the call of prepare,   *)
(* the optimisation loop and the return. An exception of prepare leaves    *)
(* affine.                                                                 *)

\* the next statement of a running prepare
prepare_step(p) ==
    CASE p.pc = "prepare_one" -> prepare_append(p)
      [] p.pc = "cast_first" -> prepare_cast_first(p)
      [] p.pc = "cast_each" -> prepare_cast_each(p)

AffineCall(source, target, max_iter, tolerance) ==
    [name |-> "affine", pc |-> "prepare",
     prep |-> PrepareCall(<<source, target>>, "None"),
     loop |-> LoopCall("affine", max_iter, tolerance)]

\* "(...) = prepare([source, target], device)": p is prepare one
\* statement further
affine_prepared(r, p) ==
    [r EXCEPT !.prep = p,
              !.pc = CASE p.pc = "raised" -> "raised"
                       [] p.pc = "returned" -> "optim"
                       [] OTHER -> "prepare"]

affine_prepare(r) == affine_prepared(r, prepare_step(r.prep))

\* one turn of the loop
affine_optim(r, loss) == [r EXCEPT !.loop = optim_iter(@, loss)]

\* the statements after the loop
affine_return(r) == [r EXCEPT !.loop = loop_return(@), !.pc = "returned"]

\* an image as affine accepts it: a path, a tensor, (tensor, affine)
AffineImages ==
    {Path("a.nii"), Array(TensorA), Seq_(<<Array(TensorA), AffineM>>)}

AffinePrepare ==
    /\ routine.name = "affine" /\ routine.pc = "prepare"
    /\ Step(affine_prepare(routine))

AffineOptim ==
    /\ routine.name = "affine" /\ routine.pc = "optim"
    /\ routine.loop.pc = "loop"
    /\ \E loss \in Losses : Step(affine_optim(routine, loss))

AffineReturn ==
    /\ routine.name = "affine" /\ routine.pc = "optim"
    /\ routine.loop.pc = "after_loop"
    /\ Step(affine_return(routine))

InitAffine ==
    InitRoutine({AffineCall(s, t, m, tol) :
                   s \in AffineImages, t \in AffineImages,
                   m \in 0..MaxIter, tol \in Tolerances})
NextAffine == AffinePrepare \/ AffineOptim \/ AffineReturn
SpecAffine == InitAffine /\ [][NextAffine]_vars

-----------------------------------------------------------------------------
(* The gradients in the loops of affine and diffeo. grad is the .grad of   *)
(* the parameters, 0 before the first backward; backward() adds the        *)
(* gradient of the loss it is called on to .grad, and optim.step() reads   *)
(* .grad. No statement of either loop resets .grad.                        *)

GradCall(name, max_iter, tolerance) ==
    [name |-> name, pc |-> "optim",
     loop |-> LoopCall(name, max_iter, tolerance),
     grad |-> 0, backward |-> 0, stepped |-> 0]

\* one turn: loss_val = loss(...); loss_val.backward(); optim.step();
\* the test on crit. g is the gradient of this turn's loss; backward is
\* g and stepped is the .grad the step read
grad_iter(r, loss, g) ==
    [r EXCEPT !.loop = optim_iter(@, loss),
              !.grad = @ + g,
              !.backward = g,
              !.stepped = r.grad + g]

grad_return(r) == [r EXCEPT !.loop = loop_return(@), !.pc = "returned"]

Grads == {0 - 1, 0, 1}

GradIter ==
    /\ routine.name \in {"affine", "diffeo"} /\ routine.pc = "optim"
    /\ routine.loop.pc = "loop"
    /\ \E loss \in Losses, g \in Grads : Step(grad_iter(routine, loss, g))

GradReturn ==
    /\ routine.name \in {"affine", "diffeo"} /\ routine.pc = "optim"
    /\ routine.loop.pc = "after_loop"
    /\ Step(grad_return(routine))

InitGrad ==
    InitRoutine({GradCall(f, m, t) : f \in {"affine", "diffeo"},
                                     m \in 0..MaxIter, t \in Tolerances})
NextGrad == GradIter \/ GradReturn
SpecGrad == InitGrad /\ [][NextGrad]_vars

-----------------------------------------------------------------------------
(* The regularisation weights of phase.phase_fit. A weight is              *)
(* <<a, b, k>>, the number a + b * 10^k, with k = 0 when b = 0; lam holds  *)
(* whole numbers. prm is [membrane, bending], each a pair of weights, one  *)
(* per channel: log-magnitude first, phase last.                           *)

Plain(x) == <<x, 0, 0>>
Weight(a, b, k) == IF b = 0 THEN <<a, 0, 0>> ELSE <<a, b, k>>

\* 1 + 10 ** (5 - n_iter)
Factor(n_iter) == Weight(1, 1, 5 - n_iter)

\* x * f for a whole number x
Times(x, f) == Weight(x * f[1], x * f[2], f[3])

\* lam * int(penalty == kind)
Chosen(lam, penalty, kind) == IF penalty = kind THEN lam ELSE 0

PhaseFitCall(lam, penalty) ==
    [name |-> "phase_fit", pc |-> "optim", lam |-> lam, penalty |-> penalty,
     prm |-> [kind \in {"membrane", "bending"} |->
                <<Plain(Chosen(lam[1], penalty[1], kind)),
                  Plain(Chosen(lam[2], penalty[2], kind))>>],
     lam0 |-> [kind \in {"membrane", "bending"} |->
                 Chosen(lam[2], penalty[2], kind)],
     loop |-> LoopCall("phase_fit", PhaseIters, 1)]

\* weights that scale the entry of the first channel
phase_weights_first(r, n_iter) ==
    [kind \in {"membrane", "bending"} |->
       [r.prm[kind] EXCEPT ![1] = Times(r.lam0[kind], Factor(n_iter))]]

\* "prm['membrane'][-1] = lam0['membrane'] * factor" and the same for
\* bending, in turn n_iter
phase_weights(r, n_iter) ==
    [kind \in {"membrane", "bending"} |->
       [r.prm[kind] EXCEPT ![2] = Times(r.lam0[kind], Factor(n_iter))]]

\* one turn of the loop of phase_fit
phase_fit_iter(r, ll, lr) ==
    [r EXCEPT !.prm = phase_weights(r, r.loop.n_iter),
              !.loop = phase_iter(@, ll, lr)]

phase_fit_return(r) == [r EXCEPT !.loop = loop_return(@), !.pc = "returned"]

Lams == {<<0, 10>>, <<1, 2>>, <<3, 0>>}
Penalties == {"membrane", "bending", "none"}

PhaseFitIter ==
    /\ routine.name = "phase_fit" /\ routine.pc = "optim"
    /\ routine.loop.pc = "loop"
    /\ \E ll \in Losses, lr \in Regs : Step(phase_fit_iter(routine, ll, lr))

PhaseFitReturn ==
    /\ routine.name = "phase_fit" /\ routine.pc = "optim"
    /\ routine.loop.pc = "after_loop"
    /\ Step(phase_fit_return(routine))

InitPhaseFit ==
    InitRoutine({PhaseFitCall(lam, <<p1, p2>>) :
                   lam \in Lams, p1 \in Penalties, p2 \in Penalties})
NextPhaseFit == PhaseFitIter \/ PhaseFitReturn
SpecPhaseFit == InitPhaseFit /\ [][NextPhaseFit]_vars

-----------------------------------------------------------------------------
(* phase.derivatives(magnitude, phase, fit_log_magnitude, fit_phase). An    *)
(* image is a sequence of voxels. A magnitude is a rational; an angle is    *)
(* [cos, sin] with rational cosine and sine; a log-magnitude is [log], the  *)
(* float nearest the logarithm of a rational. Floating-point rounding is    *)
(* x(1 + e/Mantissa) with e in Roundings, taken where the result is not     *)
(* representable: in exp and in the sum of the two products of cosines and  *)
(* sines; a zero stays zero, and exp(0) is 1.                               *)

QAbs(a) == <<Abs(a[1]), a[2]>>
QLe(a, b) == ~QLess(b, a)

RECURSIVE QSum(_)
QSum(s) == IF s = <<>> THEN QI(0) ELSE QAdd(Head(s), QSum(Tail(s)))

Roundings == {0 - 1, 0, 1}
Fl(x, e) == QMul(x, Q(Mantissa + e, Mantissa))

\* torch.log of a positive magnitude
Log(m) == [log |-> m]

\* fit_log_magnitude.exp(), one voxel
Exp(l, e) == IF l.log = QI(1) THEN QI(1) ELSE Fl(l.log, e)

Angle(c, s) == [cos |-> c, sin |-> s]

\* phase.cos() * fit_phase.cos() + phase.sin() * fit_phase.sin()
cos_diff(p, f) == QAdd(QMul(p.cos, f.cos), QMul(p.sin, f.sin))

\* the same with the sign of the second product changed
sin_diff_plus(p, f) == QAdd(QMul(p.cos, f.sin), QMul(p.sin, f.cos))

\* phase.cos() * fit_phase.sin() - phase.sin() * fit_phase.cos()
sin_diff(p, f) == QSub(QMul(p.cos, f.sin), QMul(p.sin, f.cos))

Voxels(r) == 1..Len(r.magnitude)

DerivativesCall(magnitude, phase, fit_log_magnitude, fit_phase) ==
    [name |-> "derivatives", pc |-> "exp",
     magnitude |-> magnitude, phase |-> phase,
     fit_log_magnitude |-> fit_log_magnitude, fit_phase |-> fit_phase,
     fit_magnitude |-> <<>>, prod_phase |-> <<>>, prod_phase_grad |-> <<>>,
     g |-> <<>>, h |-> <<>>, ll |-> QI(0)]

\* fit_magnitude = fit_log_magnitude.exp(); e is the rounding of each voxel
derivatives_exp(r, e) ==
    [r EXCEPT !.fit_magnitude =
                 [i \in Voxels(r) |-> Exp(r.fit_log_magnitude[i], e[i])],
              !.pc = "prod"]

\* prod_phase and prod_phase_grad
derivatives_prod(r, e) ==
    [r EXCEPT !.prod_phase =
                 [i \in Voxels(r) |->
                    QMul(Fl(cos_diff(r.phase[i], r.fit_phase[i]), e[i]),
                         r.magnitude[i])],
              !.prod_phase_grad =
                 [i \in Voxels(r) |->
                    QMul(sin_diff(r.phase[i], r.fit_phase[i]),
                         r.magnitude[i])],
              !.pc = "grad"]

\* g[0], one voxel
grad_magnitude(fm, pp) == QMul(fm, QSub(fm, pp))

\* the summand of ll, one voxel
nll_voxel(m, fm, pp) ==
    QSub(QMul(Q(1, 2), QAdd(QMul(m, m), QMul(fm, fm))), QMul(fm, pp))

\* g, h and ll, and the return
derivatives_return(r) ==
    [r EXCEPT
       !.g = << [i \in Voxels(r) |->
                   grad_magnitude(r.fit_magnitude[i], r.prod_phase[i])],
                [i \in Voxels(r) |->
                   QMul(r.fit_magnitude[i], r.prod_phase_grad[i])] >>,
       !.h = << [i \in Voxels(r) |->
                   QAdd(QMul(r.fit_magnitude[i], r.fit_magnitude[i]),
                        QAbs(grad_magnitude(r.fit_magnitude[i],
                                            r.prod_phase[i])))],
                [i \in Voxels(r) |->
                   QMul(r.fit_magnitude[i], r.fit_magnitude[i])] >>,
       !.ll = QSum([i \in Voxels(r) |->
                      nll_voxel(r.magnitude[i], r.fit_magnitude[i],
                                r.prod_phase[i])]),
       !.pc = "returned"]

Magnitudes == {QI(1), QI(3)}
Angles == {Angle(QI(1), QI(0)), Angle(QI(0), QI(1)), Angle(Q(3, 5), Q(4, 5))}

DerivativesExp ==
    /\ routine.name = "derivatives" /\ routine.pc = "exp"
    /\ \E e \in [Voxels(routine) -> Roundings] :
          Step(derivatives_exp(routine, e))

DerivativesProd ==
    /\ routine.name = "derivatives" /\ routine.pc = "prod"
    /\ \E e \in [Voxels(routine) -> Roundings] :
          Step(derivatives_prod(routine, e))

DerivativesReturn ==
    /\ routine.name = "derivatives" /\ routine.pc = "grad"
    /\ Step(derivatives_return(routine))

InitDerivatives ==
    InitRoutine(UNION {
        {DerivativesCall(m, p, [i \in 1..n |-> Log(fm[i])], fp) :
           m \in [1..n -> Magnitudes], p \in [1..n -> Angles],
           fm \in [1..n -> Magnitudes], fp \in [1..n -> Angles]} :
        n \in 1..MaxVoxels})
NextDerivatives == DerivativesExp \/ DerivativesProd \/ DerivativesReturn
SpecDerivatives == InitDerivatives /\ [][NextDerivatives]_vars

-----------------------------------------------------------------------------
(* Properties *)

Handle(v) == [i \in 1..Len(v.images) |-> v.images[i].image]

\* C1: after a valid value has been assigned to a broadcast property of
\* the viewer, the viewer and every artist it owns read the same value of
\* that property
C1_BroadcastAgrees ==
    (last.op = "setattr" /\ last.key \in Props /\ last.stored) =>
        \A i \in 1..Len(viewer.images) :
            artist_getattr(viewer.images[i], last.key)
                = viewer_get(viewer.images, last.key)

C1_Witness ==
    /\ last.op = "setattr" /\ last.key = "layout" /\ last.stored
    /\ last.arg = "COL"
    /\ Len(viewer.images) = 2
    /\ viewer.images[2].layout = "col"

\* C2: a call of redraw made less than draw_freq after the last executed
\* redraw changes neither the figure nor the timestamp; any other call
\* clears the figure, draws every artist with the current cursor and field
\* of view and sets the timestamp; and no step without an executed redraw
\* draws anything (a skipped request is not replayed)
C2_RedrawThrottled ==
    [][/\ last'.op = "redraw" =>
            IF now - viewer.last_draw < DrawFreq
            THEN viewer' = viewer
            ELSE /\ viewer'.fig.n = Len(viewer.images)
                 /\ viewer'.fig.index = viewer.index
                 /\ viewer'.fig.fov = viewer.fov
                 /\ viewer'.last_draw = now
       /\ last'.exe = 0 =>
            /\ viewer'.fig = viewer.fig
            /\ viewer'.last_draw = viewer.last_draw]_vars

\* C3: an assignment to a public attribute made while auto_redraw is
\* enabled issues one redraw request, after the value is stored (a redraw
\* that runs to the end shows the stored grid and image list); an
\* assignment made while auto_redraw is disabled, to an internal
\* attribute, or rejected by the setter, issues none
C3_AutoRedraw ==
    [][last'.op = "setattr" =>
        /\ last'.req = IF /\ last'.key \notin InternalKeys
                          /\ viewer.auto_redraw
                          /\ last'.stored
                       THEN 1 ELSE 0
        /\ (last'.exe = 1 /\ last'.ok) =>
              /\ viewer'.fig.n = Len(viewer'.images)
              /\ viewer'.fig.grid
                    = grid_auto(viewer', Len(viewer'.images)).grid]_vars

C3_Witness ==
    /\ last.op = "setattr" /\ last.key = "grid" /\ last.arg = <<2, 0>>
    /\ last.req = 1 /\ last.exe = 1 /\ last.ok
    /\ viewer.fig.grid = <<2, 1>>

\* C4: when the scroll handler returns, the cursor index and auto_redraw
\* are the ones held before the event
C4_ScrollRestores ==
    [][(last'.op = "on_scroll" /\ last'.ok) =>
          /\ viewer'.index = viewer.index
          /\ viewer'.auto_redraw = viewer.auto_redraw]_vars

C4_Witness ==
    /\ last.op = "on_scroll" /\ last.ok
    /\ last.arg.inaxes >= 1
    /\ last.arg.p # viewer.index
    /\ viewer.auto_redraw
    /\ viewer.fov # max_fov(viewer)

\* the field of view fov rescaled by k around the point c
Rescaled(c, fov, k) ==
    <<[a \in Axes |-> QSub(c[a], QMul(k, QSub(c[a], fov[1][a])))],
      [a \in Axes |->
         QAdd(QSub(c[a], QMul(k, QSub(c[a], fov[1][a]))),
              QMul(k, QSub(fov[2][a], fov[1][a])))]>>

\* scroll_step ** (-s)
ZoomFactor(v, s) ==
    IF s <= 0 THEN QI(IPow(v.scroll_step, 0 - s))
    ELSE Q(1, IPow(v.scroll_step, s))

\* C5 as stated: a scroll over a panel rescales the field of view around
\* the cursor position held before the event
C5_AroundOriginalCursor ==
    [][(last'.op = "on_scroll" /\ last'.ok /\ last'.arg.inaxes >= 1) =>
          viewer'.fov = Rescaled(viewer.index, viewer.fov,
                                 ZoomFactor(viewer, last'.arg.step))]_vars

\* a redraw called now would not be throttled
RedrawDue(v, t) == t - v.last_draw >= DrawFreq

\* C5 amended: a scroll with step count s over a panel rescales the field
\* of view on every axis around the point p under the pointer, new_min =
\* p - k*(p - old_min), new_max = new_min + k*(old_max - old_min) with
\* k = scroll_step^(-s); it is rescaled around the cursor held before the
\* event when the pointer is over no panel, or when auto_redraw was
\* enabled and a redraw was due (the handler then redraws before it
\* looks the panel up); a handler that raises leaves the field of view as
\* it was or rescaled in this way
C5_AroundPointer ==
    [][last'.op = "on_scroll" =>
          LET c == IF /\ last'.arg.inaxes >= 1
                      /\ ~(viewer.auto_redraw /\ RedrawDue(viewer, now))
                   THEN last'.arg.p
                   ELSE viewer.index
              target == Rescaled(c, viewer.fov,
                                 ZoomFactor(viewer, last'.arg.step))
          IN  /\ last'.ok => viewer'.fov = target
              /\ viewer'.fov = viewer.fov \/ viewer'.fov = target]_vars

C5_Witness ==
    /\ last.op = "on_scroll" /\ last.ok
    /\ last.arg.inaxes >= 1 /\ last.arg.step = 1
    /\ last.arg.p # viewer.index
    /\ viewer.fov # max_fov(viewer)

\* C6: a pointer move changes the cursor only if a primary-button press
\* was delivered with no primary-button release since; a primary release
\* clears the drag state; a press or release of another button changes
\* neither the drag state nor the cursor
C6_Drag ==
    [][/\ (last'.op = "on_move" /\ viewer'.index # viewer.index) => held
       /\ (last'.op = "on_release" /\ last'.arg.button = 1) =>
             ~viewer'.is_pressed
       /\ (last'.op \in {"on_press", "on_release"}
             /\ last'.arg.button # 1) =>
             /\ viewer'.is_pressed = viewer.is_pressed
             /\ viewer'.index = viewer.index]_vars

C6_Witness ==
    /\ last.op = "on_move" /\ held
    /\ last.arg.inaxes >= 1
    /\ viewer.index = last.arg.p
    /\ viewer.fig.index # last.arg.p

\* C7: _grid_auto returns a grid with at least as many cells as there are
\* images, in every state of the viewer
C7_GridCovers ==
    LET g == grid_auto(viewer, Len(viewer.images))
    IN  g.ok /\ g.grid[1] * g.grid[2] >= Len(viewer.images)

\* the least c with c * g >= n
Ceiling(n, g) == CHOOSE c \in 0..n : c * g >= n /\ (c - 1) * g < n

\* C8: a grid with both dimensions given whose product is not the number
\* of images is rejected and the stored grid stays; a grid with one
\* dimension given is stored, and the layout (and the figure, when the
\* redraw runs) has the other dimension by ceiling division
C8_GridSetter ==
    [][(last'.op = "setattr" /\ last'.key = "grid" /\ Len(last'.arg) = 2) =>
          LET gx == last'.arg[1]
              gy == last'.arg[2]
              n == Len(viewer.images)
              g == IF gy = 0 THEN <<gx, Ceiling(n, gx)>>
                   ELSE <<Ceiling(n, gy), gy>>
          IN  /\ (gx # 0 /\ gy # 0 /\ gx * gy # n) =>
                    /\ ~last'.stored /\ ~last'.ok
                    /\ viewer'.grid = viewer.grid
              /\ ((gx = 0) # (gy = 0)) =>
                    /\ last'.stored
                    /\ viewer'.grid = last'.arg
                    /\ grid_auto(viewer', n).grid = g
                    /\ (last'.exe = 1 => viewer'.fig.grid = g)]_vars

C8_Witness ==
    /\ last.op = "setattr" /\ last.key = "grid" /\ last.arg = <<2, 2>>
    /\ ~last.stored
    /\ viewer.grid = <<0, 2>>

\* C9: assigning fov = None or (None, None) stores the bounding box of all
\* the images' grids in the current visualisation space
C9_FovAuto ==
    (last.op = "setattr" /\ last.key = "fov"
        /\ last.arg \in {None, <<None, None>>}) =>
        viewer.fov = compute_fov(viewer.space_matrix, Handle(viewer))

C9_Witness ==
    /\ last.op = "setattr" /\ last.key = "fov" /\ last.arg = <<None, None>>
    /\ Len(viewer.images) = 2
    /\ viewer.images[1].image # viewer.images[2].image
    /\ viewer.space_matrix = "M"

\* C10: when fov is assigned with some entries absent, every supplied
\* entry is stored as given
C10_SuppliedKept ==
    (last.op = "setattr" /\ last.key = "fov" /\ last.arg # None) =>
        \A c \in 1..2 : \A a \in Axes :
            (last.arg[c] # None /\ last.arg[c][a] # None) =>
                viewer.fov[c][a] = last.arg[c][a]

\* the strings the setters of layout, equalize and mode reject
Rejected(p, x) ==
    /\ x \in StrTokens
    /\ \/ p = "layout" /\ Lower(x) \notin {"row", "col", "orth"}
       \/ p = "equalize" /\ Lower(x) \notin {"lin", "linear", "quad",
                                             "quadratic", "log",
                                             "logarithmic"}
       \/ p = "mode" /\ Lower(x) \notin {"int", "intensity", "cat",
                                         "categorical", "disp",
                                         "displacement"}

\* C11: assigning to the viewer a layout, a string equalize or a mode
\* outside the accepted names raises and changes the value no artist holds
C11_InvalidRejected ==
    [][(last'.op = "setattr" /\ Rejected(last'.key, last'.arg)) =>
          /\ ~last'.ok
          /\ ~last'.stored
          /\ viewer'.images = viewer.images]_vars

C11_Witness ==
    /\ last.op = "setattr" /\ last.key = "mode" /\ last.arg = "flow"
    /\ ~last.ok
    /\ Len(viewer.images) = 2
    /\ viewer.images[2].mode = "cat"

\* C12: preparing (tensor, orientation) pairs returns, and returns for
\* each the values of the tensor and of the orientation it was given
C12_PreparedPairKept ==
    (/\ routine.name = "prepare"
     /\ routine.pc \in {"returned", "raised"}
     /\ \A i \in 1..Len(routine.inputs) : routine.inputs[i] \in Pairs)
    => /\ routine.pc = "returned"
       /\ \A i \in 1..Len(routine.inputs) :
            /\ routine.prepared[i].data.val
                  = routine.inputs[i].items[1].t.val
            /\ routine.prepared[i].aff.val = routine.inputs[i].items[2].val

\* C13: prepare returns for every batch, and every tensor and orientation
\* it returns is on the device of the first data cast to the requested
\* device, in 32-bit float
C13_PrepareBackend ==
    (routine.name = "prepare" /\ routine.pc \in {"returned", "raised"})
    => /\ routine.pc = "returned"
       /\ \A i \in 1..Len(routine.prepared) :
            /\ routine.prepared[i].data.dtype = "float32"
            /\ routine.prepared[i].aff.dtype = "float32"
            /\ routine.prepared[i].data.device
                  = To(prepare_one(routine.inputs[1]).data,
                       routine.device, "float32").device
            /\ routine.prepared[i].aff.device
                  = To(prepare_one(routine.inputs[1]).data,
                       routine.device, "float32").device

\* C14: every optimisation loop ends. No loop makes more turns than its
\* cap (max_iter; 20 for phase_fit); a turn leaves the loop early exactly
\* when the absolute improvement on the previous turn is below the
\* threshold, never on the first turn; and the routine returns whichever
\* way the loop ended.
C14_LoopsTerminate ==
    /\ [](routine.n_iter <= routine.max_iter)
    /\ [][routine'.n_iter = routine.n_iter + 1 =>
            /\ routine.pc = "loop" /\ routine.n_iter < routine.max_iter
            /\ routine.n_iter = 0 => ~routine'.broke
            /\ routine.name \in {"affine", "diffeo"} =>
                 (routine'.broke <=>
                    /\ routine.loss_val[1] = "fin"
                    /\ routine'.loss_val[1] = "fin"
                    /\ Abs(routine.loss_val[2] - routine'.loss_val[2])
                          < routine.tolerance)
            /\ routine.name = "phase_fit" =>
                 (routine'.broke <=> phase_below(routine, routine'.ll,
                                                 routine'.lr))
            /\ routine'.pc = "after_loop" <=>
                 (routine'.broke \/ routine'.n_iter = routine.max_iter)]_vars
    /\ <>(routine.pc = "returned")

C14_Witness ==
    /\ routine.name = "phase_fit" /\ routine.pc = "returned"
    /\ routine.n_iter = PhaseIters /\ ~routine.broke

\* C15: an artist whose mmap is true holds no cached data: setting mmap
\* to true releases the cache at once, and no access (fdata, load, a
\* draw) or device assignment puts data back while mmap stays true
C15_MmapHoldsNoCache ==
    \A i \in 1..Len(viewer.images) :
        viewer.images[i].mmap => ~viewer.images[i].fdata

C15_Witness ==
    /\ last.op = "artist.load"
    /\ viewer.images[last.arg.i].mmap
    /\ viewer.images[last.arg.i].map
    /\ viewer.images[last.arg.i].drawn
    /\ viewer.images[last.arg.i].device = "cuda:0"

\* C16: after set_<p>(value, all=True) on an artist every other artist
\* of the viewer holds the value the called artist now holds; with
\* all=False every other artist is as it was; and neither requests a
\* redraw or changes the figure
C16_SetPropagates ==
    [][last'.op = "artist.set" =>
          /\ \A j \in 1..Len(viewer'.images) :
                j # last'.arg.i =>
                  IF last'.arg.all
                  THEN artist_getattr(viewer'.images[j], last'.key)
                         = artist_getattr(viewer'.images[last'.arg.i],
                                          last'.key)
                  ELSE viewer'.images[j] = viewer.images[j]
          /\ last'.req = 0
          /\ viewer'.fig = viewer.fig
          /\ viewer'.last_draw = viewer.last_draw]_vars

C16_Witness ==
    /\ last.op = "artist.set" /\ last.key = "clim" /\ last.arg.all
    /\ last.arg.i = 2 /\ last.arg.x = "(0,1)"
    /\ viewer.auto_redraw
    /\ viewer.images[1].clim = <<"0", "1">>

\* C17: every construction of an artist succeeds and gives each option
\* that was not passed the parent viewer's current value, or the default
\* without a parent; and reassigning the images of a viewer succeeds and
\* leaves the seven viewer-level settings reading as before
C17_ConstructionInherits ==
    [][/\ last'.op = "artist.init" =>
            /\ last'.ok
            /\ \A p \in DOMAIN Defaults :
                  last'.arg.opts[p] = Unset =>
                    artist_getattr(last'.arg.a, p)
                      = IF last'.arg.parent THEN viewer_get(viewer.images, p)
                        ELSE Defaults[p]
       /\ (last'.op = "setattr" /\ last'.key = "images") =>
            /\ last'.ok
            /\ \A p \in DOMAIN Defaults :
                  viewer_get(viewer'.images, p) = viewer_get(viewer.images, p)
      ]_vars

\* the inputs of derivatives are a perfect fit
PerfectFit(r) ==
    \A i \in Voxels(r) :
        /\ r.fit_log_magnitude[i] = Log(r.magnitude[i])
        /\ r.fit_phase[i] = r.phase[i]

Squared(m) == QMul(m, m)
Near(a, b, k, m) == QLe(QAbs(QSub(a, b)), QMul(Q(k, Mantissa), Squared(m)))

C19_CopyRegisters ==
    (/\ routine.name = "affine"
     /\ routine.prep.inputs[1] = routine.prep.inputs[2])
    => routine.pc # "raised"

\* C20: a scroll event that is handled executes at most one redraw, and
\* a redraw it executes is the forced one: the figure then shows the
\* rescaled field of view and the restored cursor
C20_ScrollDrawsRescaled ==
    [][(last'.op = "on_scroll" /\ last'.ok) =>
          /\ last'.exe <= 1
          /\ last'.exe = 1 =>
                /\ viewer'.fig.fov = viewer'.fov
                /\ viewer'.fig.index = viewer'.index]_vars

\* the handler call that led to the state reads the pointer and calls
\* redraw(show=True): a primary press or a drag move over a panel, or a
\* resize
Forcing ==
    \/ last'.op = "on_press" /\ last'.arg.button = 1 /\ last'.arg.inaxes # 0
    \/ last'.op = "on_move" /\ viewer.is_pressed /\ last'.arg.inaxes # 0
    \/ last'.op = "on_resize"

\* C21 as stated: the redraw of a primary press or drag move over a
\* panel, and of a resize, is executed, so the figure shows the current
\* cursor when the handler returns
C21_HandlerRedrawExecuted ==
    [][(Forcing /\ last'.ok) =>
          /\ last'.exe >= 1
          /\ viewer'.fig.index = viewer'.index]_vars

\* C21 amended: such a handler always calls redraw, whatever auto_redraw
\* is; one redraw is executed, with the current cursor, when draw_freq has
\* passed since the last executed redraw, and otherwise the call is
\* dropped by the throttle and the figure stays as it was
C21_HandlerRedrawIssued ==
    [][(Forcing /\ last'.ok) =>
          /\ last'.req >= 1
          /\ IF now - viewer.last_draw >= DrawFreq
             THEN last'.exe = 1 /\ viewer'.fig.index = viewer'.index
             ELSE last'.exe = 0 /\ viewer'.fig = viewer.fig]_vars

C21_Witness ==
    /\ last.op = "on_move" /\ last.ok /\ held
    /\ last.arg.inaxes >= 1
    /\ last.req = 1 /\ last.exe = 0
    /\ viewer.index = last.arg.p
    /\ viewer.fig.index # viewer.index
    /\ now - viewer.last_draw < DrawFreq

\* C22: after fov_size = s the field of view of an axis whose entry of
\* s is nonzero is [index - s/2, index + s/2], so that fov_size reads s
\* there and the cursor is its middle; the axes whose entry is zero or None
\* span the bounding box; and the cursor is unchanged
C22_FovSizeCentred ==
    [][(last'.op = "setattr" /\ last'.key = "fov_size" /\ last'.ok) =>
          /\ viewer'.index = viewer.index
          /\ \A a \in Axes :
                IF Truthy(MakeList3(last'.arg)[a])
                THEN /\ viewer'.fov[1][a]
                          = QSub(viewer.index[a],
                                 QDiv(MakeList3(last'.arg)[a], QI(2)))
                     /\ viewer'.fov[2][a]
                          = QAdd(viewer.index[a],
                                 QDiv(MakeList3(last'.arg)[a], QI(2)))
                     /\ fov_size(viewer')[a] = MakeList3(last'.arg)[a]
                ELSE /\ viewer'.fov[1][a] = max_fov(viewer)[1][a]
                     /\ viewer'.fov[2][a] = max_fov(viewer)[2][a]]_vars

\* C23 as stated: reading an aggregate property of the viewer gives the
\* value the first artist holds, also when the artists disagree
C23_ReadsFirstArtist ==
    \A p \in Props :
        viewer_get(viewer.images, p) = artist_getattr(viewer.images[1], p)

\* the artists whose colormap is not a tensor
Named(imgs) == {i \in 1..Len(imgs) : ~IsTensor(imgs[i].colormap)}

\* C23 amended: reading an aggregate property other than colormap gives
\* the value the first artist holds, also when the artists disagree;
\* reading colormap gives the colormap of the first artist whose colormap
\* is not a tensor, and that of the first artist when all are tensors
C23_ReadsFirstNamed ==
    /\ \A p \in Props \ {"colormap"} :
          viewer_get(viewer.images, p) = artist_getattr(viewer.images[1], p)
    /\ \A i \in Named(viewer.images) :
          (\A j \in Named(viewer.images) : i <= j) =>
             viewer_get(viewer.images, "colormap") = viewer.images[i].colormap
    /\ Named(viewer.images) = {} =>
          viewer_get(viewer.images, "colormap") = viewer.images[1].colormap

C23_Witness ==
    /\ Len(viewer.images) = 2
    /\ last.op = "artist.set" /\ last.key = "colormap" /\ last.arg.i = 2
    /\ IsTensor(viewer.images[1].colormap)
    /\ viewer.images[2].colormap = "gray"
    /\ viewer_get(viewer.images, "colormap") = "gray"

\* C24: in affine and diffeo the gradient the optimizer step reads in an
\* iteration is the gradient of that iteration's loss, not the sum of the
\* gradients of the iterations so far
C24_GradientsCleared ==
    (routine.name \in {"affine", "diffeo"} /\ routine.loop.n_iter >= 1)
    => routine.stepped = routine.backward

\* C25: after turn n of phase_fit the membrane and bending weights of
\* the phase channel are their initial values times 1 + 10^(5-n), those
\* of the log-magnitude channel are their initial values, and in each
\* channel at most one of the two weights is nonzero
C25_PhaseWeightScaled ==
    (routine.name = "phase_fit" /\ routine.loop.n_iter >= 1) =>
      \A kind \in {"membrane", "bending"} :
        /\ routine.prm[kind][1]
              = Plain(Chosen(routine.lam[1], routine.penalty[1], kind))
        /\ routine.prm[kind][2]
              = Weight(Chosen(routine.lam[2], routine.penalty[2], kind),
                       Chosen(routine.lam[2], routine.penalty[2], kind),
                       6 - routine.loop.n_iter)
        /\ \A c \in 1..2 :
              routine.prm["membrane"][c] = Plain(0)
                \/ routine.prm["bending"][c] = Plain(0)

C25_Witness ==
    /\ routine.name = "phase_fit" /\ routine.pc = "returned"
    /\ routine.loop.n_iter = PhaseIters
    /\ routine.lam = <<1, 2>>
    /\ routine.penalty = <<"membrane", "bending">>
    /\ routine.prm["bending"][2] = <<2, 2, 0 - 14>>
    /\ routine.prm["membrane"][1] = <<1, 0, 0>>

\* C26: an artist built from an in-memory array holds its voxel data in
\* every state, whatever is called on it or on its viewer
C26_ArrayDataKept ==
    \A i \in 1..Len(viewer.images) :
        ~viewer.images[i].map => viewer.images[i].fdata

\* C27: in every state each artist's layout is row, col or orth, its mode
\* is one of the validated modes and its equalize, when a string, is one
\* of the validated methods
C27_EnumerationsHold ==
    \A i \in 1..Len(viewer.images) :
        /\ viewer.images[i].layout \in LayoutValues
        /\ viewer.images[i].mode \in ModeValues
        /\ IsStr(viewer.images[i].equalize) =>
              viewer.images[i].equalize \in EqualizeValues


\* C28: when the field of view was just assigned as absent, a following
\* successful assignment to space or to images leaves the stored field
\* of view equal to the maximum bounding box of the viewer's images in
\* the viewer's visualization space
C28_AutoFovFollows ==
    [][(/\ last.op = "setattr" /\ last.key = "fov" /\ last.arg = None
        /\ last'.op = "setattr" /\ last'.key \in {"space", "images"}
        /\ last'.ok)
       => viewer'.fov = max_fov(viewer')]_vars


\* C29: an assignment to space of a value that is neither a 4x4 matrix,
\* an integer nor None raises, issues no redraw, and leaves both the
\* value read back from space and the visualization matrix as they were
C29_FailedSpaceKeepsState ==
    [][(/\ last'.op = "setattr" /\ last'.key = "space"
        /\ last'.arg \in {"M3x3", "ras"})
       => /\ ~last'.ok
          /\ last'.req = 0
          /\ viewer'.space = viewer.space
          /\ viewer'.space_matrix = viewer.space_matrix]_vars


\* C30: after size = (w, h) returns or raises, reading size gives (w, h),
\* and after aspect = r reading aspect gives r
C30_SizeTakesEffect ==
    [][/\ (last'.op = "setattr" /\ last'.key = "size"
            /\ Len(last'.arg) = 2) => viewer'.size = last'.arg
       /\ (last'.op = "setattr" /\ last'.key = "aspect"
            /\ last'.arg # None) => aspect_of(viewer') = last'.arg]_vars

=============================================================================
